---- MODULE Spec2Model ----
(***************************************************************************)
(* Model of firewall_log_analyzer.py: parse_log_line (a regular-expression *)
(* search over one line), analyze_logs (open the file, parse every line,   *)
(* collect the matches, build a DataFrame) and main (show the data and the *)
(* rows whose action is "BLOCKED").                                        *)
(*                                                                         *)
(* Text is modelled character by character: a Python str is a sequence of  *)
(* one-character strings.  The lines of the file are decoded text; a file  *)
(* whose bytes cannot be decoded is outside the model.                     *)
(***************************************************************************)
EXTENDS Integers, Sequences, FiniteSets, TLC

VARIABLES
    pc,              \* position of the program
    source,          \* what open(log_file_path, "r") does
    lines,           \* the lines of the file, each with its line terminator
    i,               \* number of lines the for loop has consumed
    line,            \* the line being parsed
    tokens,          \* how the argument of a single parse_log_line call was built
    parsed_line,     \* value returned by parse_log_line
    parsed_data,     \* the list analyze_logs appends to
    log_data,        \* main's log_data: the value analyze_logs returned
    blocked_traffic, \* main's blocked_traffic
    stdout           \* everything printed, in order

vars == <<pc, source, lines, i, line, tokens, parsed_line, parsed_data,
          log_data, blocked_traffic, stdout>>

----------------------------------------------------------------------------
(* Bounds of the model. *)

MaxLines == 3

MaxPortLen == 2

----------------------------------------------------------------------------
(* Python values. *)

None == [type |-> "NoneType"]

Fields == {"src_ip", "dst_ip", "protocol", "src_port", "dst_port", "action"}

Whitespace == {" ", "\t", "\n", "\r"}

Digits == {"0", "1", "2", "3", "4", "5", "6", "7", "8", "9"}

BLOCKED == <<"B", "L", "O", "C", "K", "E", "D">>

(* str.strip(): drop the leading and the trailing whitespace. *)
RECURSIVE lstrip(_)
lstrip(s) ==
    IF s # <<>> /\ Head(s) \in Whitespace THEN lstrip(Tail(s)) ELSE s

RECURSIVE rstrip(_)
rstrip(s) ==
    IF s # <<>> /\ s[Len(s)] \in Whitespace
    THEN rstrip(SubSeq(s, 1, Len(s) - 1))
    ELSE s

strip(s) == rstrip(lstrip(s))

----------------------------------------------------------------------------
(* The regular expression of parse_log_line. *)

Lit(chars) == [t |-> "lit", s |-> chars, name |-> "", cls |-> ""]

Grp(name, cls) == [t |-> "grp", s |-> <<>>, name |-> name, cls |-> cls]

(* The character classes \S and \d. *)
InClass(c, cls) ==
    IF cls = "S" THEN c \notin Whitespace ELSE c \in Digits

(* The pattern with \S+ where the ports are to be digits. *)
log_pattern_ports_nonspace ==
    << Lit(<<"S", "R", "C", "=">>),                     Grp("src_ip", "S"),
       Lit(<<" ", "D", "S", "T", "=">>),                Grp("dst_ip", "S"),
       Lit(<<" ", "P", "R", "O", "T", "O", "=">>),      Grp("protocol", "S"),
       Lit(<<" ", "S", "P", "T", "=">>),                Grp("src_port", "S"),
       Lit(<<" ", "D", "P", "T", "=">>),                Grp("dst_port", "S"),
       Lit(<<" ", "A", "C", "T", "I", "O", "N", "=">>), Grp("action", "S") >>

(* The pattern with the PROTO token left out. *)
log_pattern_without_protocol ==
    << Lit(<<"S", "R", "C", "=">>),                     Grp("src_ip", "S"),
       Lit(<<" ", "D", "S", "T", "=">>),                Grp("dst_ip", "S"),
       Lit(<<" ", "S", "P", "T", "=">>),                Grp("src_port", "d"),
       Lit(<<" ", "D", "P", "T", "=">>),                Grp("dst_port", "d"),
       Lit(<<" ", "A", "C", "T", "I", "O", "N", "=">>), Grp("action", "S") >>

log_pattern ==
    << Lit(<<"S", "R", "C", "=">>),                     Grp("src_ip", "S"),
       Lit(<<" ", "D", "S", "T", "=">>),                Grp("dst_ip", "S"),
       Lit(<<" ", "P", "R", "O", "T", "O", "=">>),      Grp("protocol", "S"),
       Lit(<<" ", "S", "P", "T", "=">>),                Grp("src_port", "d"),
       Lit(<<" ", "D", "P", "T", "=">>),                Grp("dst_port", "d"),
       Lit(<<" ", "A", "C", "T", "I", "O", "N", "=">>), Grp("action", "S") >>

(* Whether the literal lit stands in s at position pos. *)
LitAt(s, pos, lit) ==
    /\ pos + Len(lit) - 1 <= Len(s)
    /\ \A k \in 1..Len(lit) : s[pos + k - 1] = lit[k]

(* Length of the longest run of characters of class cls in s from pos. *)
RunLen(s, pos, cls) ==
    Cardinality({ n \in 1..(Len(s) - pos + 1) :
                    \A k \in pos..(pos + n - 1) : InClass(s[k], cls) })

(* The one element of a singleton set.  A set binder hands its body a      *)
(* value, where a LET would be evaluated again at every use.               *)
Only(S) == CHOOSE x \in S : TRUE

(* The backtracking matcher: item k of the pattern pat against s at pos,    *)
(* with the groups captured so far.  A group X+ is greedy: it takes the     *)
(* longest run first and gives characters back one at a time.  The result  *)
(* is None or the captured groups.                                          *)
RECURSIVE MatchFrom(_, _, _, _, _)
RECURSIVE TryLen(_, _, _, _, _, _)
MatchFrom(pat, k, s, pos, groups) ==
    IF k > Len(pat) THEN groups
    ELSE IF pat[k].t = "lit"
         THEN IF LitAt(s, pos, pat[k].s)
              THEN MatchFrom(pat, k + 1, s, pos + Len(pat[k].s), groups)
              ELSE None
         ELSE Only({ TryLen(pat, k, s, p, groups, n) :
                       p \in {pos}, n \in {RunLen(s, pos, pat[k].cls)} })

TryLen(pat, k, s, pos, groups, n) ==
    IF n < 1 THEN None
    ELSE Only({ IF r # None THEN r ELSE TryLen(pat, k, s, pos, groups, n - 1) :
                  r \in { MatchFrom(pat, k + 1, s, pos + n,
                                    (pat[k].name :> SubSeq(s, pos, pos + n - 1)) @@ groups) } })

(* re.match in the place of re.search: the pattern only at the start. *)
re_match(pat, s) == MatchFrom(pat, 1, s, 1, <<>>)

(* re.search: the match at the leftmost position where the pattern matches. *)
re_search(pat, s) ==
    Only({ IF starts = {} THEN None
           ELSE MatchFrom(pat, 1, s, CHOOSE st \in starts : \A o \in starts : st <= o, <<>>) :
             starts \in { { st \in 1..(Len(s) + 1) : MatchFrom(pat, 1, s, st, <<>>) # None } } })

MatchedLine == <<"M", "a", "t", "c", "h", "e", "d", " ", "L", "i", "n", "e", ":", " ">>

SkippedLine == <<"S", "k", "i", "p", "p", "e", "d", " ", "L", "i", "n", "e", ":", " ">>

(* parse_log_line(line): ret is the value returned, out the line printed. *)
parse_log_line(ln) ==
    Only({ IF match # None
           THEN [ret |-> match, out |-> [text |-> MatchedLine \o stripped]]
           ELSE [ret |-> None,  out |-> [text |-> SkippedLine \o stripped]] :
             stripped \in {strip(ln)},
             match \in {re_search(log_pattern, strip(ln))} })

----------------------------------------------------------------------------
(* pandas: a DataFrame built from a list of dicts is its rows under the     *)
(* index labels 0, 1, ..., in the order of the list.                        *)

DataFrame(data) ==
    [type |-> "DataFrame", index |-> [k \in 1..Len(data) |-> k - 1], rows |-> data]

(* DataFrame.empty *)
empty(df) == Len(df.index) = 0

(* str.upper() on the letters of "blocked". *)
UpperChar(c) ==
    CASE c = "b" -> "B" [] c = "l" -> "L" [] c = "o" -> "O" [] c = "c" -> "C"
      [] c = "k" -> "K" [] c = "e" -> "E" [] c = "d" -> "D" [] OTHER -> c

(* The comparison made without regard to case. *)
SeriesEq_nocase(df, col, value) ==
    [k \in 1..Len(df.rows) |->
        [j \in 1..Len(df.rows[k][col]) |-> UpperChar(df.rows[k][col][j])]
            = [j \in 1..Len(value) |-> UpperChar(value[j])]]

(* df[col] == value: the boolean Series, one entry per row. *)
SeriesEq(df, col, value) ==
    [k \in 1..Len(df.rows) |-> df.rows[k][col] = value]

(* df[mask]: the rows whose mask entry is True, with their index labels,    *)
(* taken in the order of the frame.                                         *)
RECURSIVE TakeFrom(_, _, _)
TakeFrom(df, mask, k) ==
    IF k > Len(df.rows) THEN [index |-> <<>>, rows |-> <<>>]
    ELSE LET rest == TakeFrom(df, mask, k + 1)
         IN  IF mask[k]
             THEN [index |-> <<df.index[k]>> \o rest.index,
                   rows  |-> <<df.rows[k]>> \o rest.rows]
             ELSE rest

(* The selection started one row late. *)
BoolIndex_skip_first(df, mask) ==
    LET taken == TakeFrom(df, mask, 2)
    IN  [type |-> "DataFrame", index |-> taken.index, rows |-> taken.rows]

BoolIndex(df, mask) ==
    LET taken == TakeFrom(df, mask, 1)
    IN  [type |-> "DataFrame", index |-> taken.index, rows |-> taken.rows]

(* log_data[log_data[col] == value] *)
filterByField(df, col, value) == BoolIndex(df, SeriesEq(df, col, value))

(* Truth value of a Python object: None and the empty containers are false. *)
Truthy(v) == v # None /\ DOMAIN v # {}

----------------------------------------------------------------------------
(* The lines a file may hold and the arguments parse_log_line is tried on. *)

Canonical == <<"src_ip", "dst_ip", "protocol", "src_port", "dst_port", "action">>

KeyOf(f) ==
    CASE f = "src_ip"   -> <<"S", "R", "C", "=">>
      [] f = "dst_ip"   -> <<"D", "S", "T", "=">>
      [] f = "protocol" -> <<"P", "R", "O", "T", "O", "=">>
      [] f = "src_port" -> <<"S", "P", "T", "=">>
      [] f = "dst_port" -> <<"D", "P", "T", "=">>
      [] f = "action"   -> <<"A", "C", "T", "I", "O", "N", "=">>

(* The key=value tokens of t from the k-th on, joined by the separator. *)
RECURSIVE JoinTokens(_, _)
JoinTokens(t, k) ==
    IF k > Len(t.order) THEN <<>>
    ELSE (IF k > 1 THEN t.sep ELSE <<>>)
         \o KeyOf(t.order[k]) \o t.val[t.order[k]] \o JoinTokens(t, k + 1)

(* The line: text, the tokens, text. *)
Assemble(t) == t.lead \o JoinTokens(t, 1) \o t.trail

Orders ==
    { Canonical,
      <<"dst_ip", "src_ip", "protocol", "src_port", "dst_port", "action">>,
      <<"src_ip", "dst_ip", "protocol", "dst_port", "src_port", "action">>,
      <<"src_ip", "dst_ip", "src_port", "dst_port", "action">>,
      <<"src_ip", "dst_ip", "protocol", "src_port", "dst_port">>,
      <<"dst_ip", "protocol", "src_port", "dst_port", "action">> }

PortStrings == UNION { [1..n -> {"4", "x"}] : n \in 1..MaxPortLen }

ALLOWED == <<"A", "l", "l", "o", "w", "e", "d">>

Values ==
    { [src_ip |-> s, dst_ip |-> <<"a">>, protocol |-> <<"T", "C", "P">>,
       src_port |-> sp, dst_port |-> dp, action |-> a] :
         s \in { <<"1", ".", "5">>, <<"S", "R", "C", "=", "a">> },
         sp \in PortStrings, dp \in PortStrings,
         a \in { BLOCKED, ALLOWED } }

Leads == { <<>>, <<" ", "\t">>, <<"k", ":", " ">> }

Trails == { <<>>, <<"\n">>, <<" ", "e", " ", "\n">> }

Separators == { <<" ">>, <<" ", " ">>, <<"\t">> }

TokenChoices ==
    { [lead |-> l, order |-> o, val |-> v, sep |-> sp, trail |-> tr] :
        l \in Leads, o \in Orders, v \in Values, sp \in Separators, tr \in Trails }

NoTokens == [lead |-> <<>>, order |-> <<>>, val |-> <<>>, sep |-> <<>>, trail |-> <<>>]

Rec(s, sp, dp, a) ==
    [src_ip |-> s, dst_ip |-> <<"a">>, protocol |-> <<"T", "C", "P">>,
     src_port |-> sp, dst_port |-> dp, action |-> a]

Tok(l, o, v, tr) == [lead |-> l, order |-> o, val |-> v, sep |-> <<" ">>, trail |-> tr]

(* The lines of a log file: events that are blocked, allowed, "blocked" in  *)
(* lower case, an event with a malformed port, and text that is no event.   *)
SampleLines ==
    { Assemble(Tok(<<"k", ":", " ">>, Canonical,
                   Rec(<<"1", ".", "5">>, <<"4", "4">>, <<"5">>, BLOCKED), <<"\n">>)),
      Assemble(Tok(<<>>, Canonical,
                   Rec(<<"2">>, <<"8">>, <<"5">>, BLOCKED), <<" ", "e", "\n">>)),
      Assemble(Tok(<<" ">>, Canonical,
                   Rec(<<"3">>, <<"4">>, <<"5">>, <<"A", "L", "L", "O", "W", "E", "D">>),
                   <<"\n">>)),
      Assemble(Tok(<<>>, Canonical,
                   Rec(<<"4">>, <<"4">>, <<"5">>, <<"b", "l", "o", "c", "k", "e", "d">>),
                   <<"\n">>)),
      Assemble(Tok(<<>>, Canonical,
                   Rec(<<"5">>, <<"4", "x">>, <<"5">>, BLOCKED), <<"\n">>)),
      <<"g", "a", "r", "b", "a", "g", "e", " ", "t", "e", "x", "t", "\n">>,
      <<"\n">> }

Files == UNION { [1..n -> SampleLines] : n \in 0..MaxLines }

----------------------------------------------------------------------------
(* One call of parse_log_line on a line built from tokens. *)

ParseInit ==
    /\ pc = "parse_call"
    /\ tokens \in TokenChoices
    /\ line = Assemble(tokens)
    /\ source = "ok"
    /\ lines = <<>>
    /\ i = 0
    /\ parsed_line = None
    /\ parsed_data = <<>>
    /\ log_data = None
    /\ blocked_traffic = None
    /\ stdout = <<>>

CallParse ==
    /\ pc = "parse_call"
    /\ parsed_line' = parse_log_line(line).ret
    /\ stdout' = Append(stdout, parse_log_line(line).out)
    /\ pc' = "parse_return"
    /\ UNCHANGED <<source, lines, i, line, tokens, parsed_data, log_data, blocked_traffic>>

ParseNext == CallParse

ParseSpec == ParseInit /\ [][ParseNext]_vars

----------------------------------------------------------------------------
(* One run of main(). *)

Sources == {"ok", "FileNotFoundError", "PermissionError", "IsADirectoryError"}

Init ==
    /\ pc = "main"
    /\ source \in Sources
    /\ lines \in (IF source = "ok" THEN Files ELSE {<<>>})
    /\ i = 0
    /\ line = <<>>
    /\ tokens = NoTokens
    /\ parsed_line = None
    /\ parsed_data = <<>>
    /\ log_data = None
    /\ blocked_traffic = None
    /\ stdout = <<>>

(* main calls analyze_logs and the file opens. *)
OpenOk ==
    /\ pc = "main"
    /\ source = "ok"
    /\ stdout' = Append(stdout, [msg |-> "Analyzing logs from firewall_logs.txt..."])
    /\ parsed_data' = <<>>
    /\ pc' = "for"
    /\ UNCHANGED <<source, lines, i, line, tokens, parsed_line, log_data, blocked_traffic>>

(* open raises FileNotFoundError: the handler prints and returns None. *)
OpenNotFound ==
    /\ pc = "main"
    /\ source = "FileNotFoundError"
    /\ stdout' = stdout \o << [msg |-> "Analyzing logs from firewall_logs.txt..."],
                              [msg |-> "Error: Log file not found."] >>
    /\ parsed_data' = <<>>
    /\ log_data' = None
    /\ pc' = "returned"
    /\ UNCHANGED <<source, lines, i, line, tokens, parsed_line, blocked_traffic>>

(* open raises another OSError: no handler in analyze_logs or main takes it. *)
OpenRaises ==
    /\ pc = "main"
    /\ source \notin {"ok", "FileNotFoundError"}
    /\ stdout' = Append(stdout, [msg |-> "Analyzing logs from firewall_logs.txt..."])
    /\ parsed_data' = <<>>
    /\ pc' = "raised"
    /\ UNCHANGED <<source, lines, i, line, tokens, parsed_line, log_data, blocked_traffic>>

(* The pass of the loop with parsed_data.insert(0, parsed_line). *)
ForLine_prepend ==
    /\ pc = "for"
    /\ i < Len(lines)
    /\ \E call \in {parse_log_line(lines[i + 1])} :
           /\ i' = i + 1
           /\ line' = lines[i + 1]
           /\ parsed_line' = call.ret
           /\ stdout' = Append(stdout, call.out)
           /\ parsed_data' = IF Truthy(call.ret)
                             THEN <<call.ret>> \o parsed_data
                             ELSE parsed_data
    /\ UNCHANGED <<pc, source, lines, tokens, log_data, blocked_traffic>>

(* The pass of the loop with a break at the first line that does not match. *)
ForLine_break ==
    /\ pc = "for"
    /\ i < Len(lines)
    /\ \E call \in {parse_log_line(lines[i + 1])} :
           /\ i' = IF Truthy(call.ret) THEN i + 1 ELSE Len(lines)
           /\ line' = lines[i + 1]
           /\ parsed_line' = call.ret
           /\ stdout' = Append(stdout, call.out)
           /\ parsed_data' = IF Truthy(call.ret)
                             THEN Append(parsed_data, call.ret)
                             ELSE parsed_data
    /\ UNCHANGED <<pc, source, lines, tokens, log_data, blocked_traffic>>

(* One pass of the for loop: the next line is parsed and kept if it matched. *)
ForLine ==
    /\ pc = "for"
    /\ i < Len(lines)
    /\ \E call \in {parse_log_line(lines[i + 1])} :
           /\ i' = i + 1
           /\ line' = lines[i + 1]
           /\ parsed_line' = call.ret
           /\ stdout' = Append(stdout, call.out)
           /\ parsed_data' = IF Truthy(call.ret)
                             THEN Append(parsed_data, call.ret)
                             ELSE parsed_data
    /\ UNCHANGED <<pc, source, lines, tokens, log_data, blocked_traffic>>

(* The return with an empty DataFrame where the code returns None. *)
Return_empty_frame ==
    /\ pc = "for"
    /\ i = Len(lines)
    /\ log_data' = DataFrame(parsed_data)
    /\ stdout' = stdout
    /\ pc' = "returned"
    /\ UNCHANGED <<source, lines, i, line, tokens, parsed_line, parsed_data, blocked_traffic>>

(* The file is exhausted: analyze_logs returns and main binds log_data. *)
Return ==
    /\ pc = "for"
    /\ i = Len(lines)
    /\ IF parsed_data # <<>>
       THEN /\ log_data' = DataFrame(parsed_data)
            /\ stdout' = stdout
       ELSE /\ log_data' = None
            /\ stdout' = Append(stdout, [msg |-> "No valid log entries were parsed."])
    /\ pc' = "returned"
    /\ UNCHANGED <<source, lines, i, line, tokens, parsed_line, parsed_data, blocked_traffic>>

(* main shows the parsed logs, or says that there are none. *)
Show ==
    /\ pc = "returned"
    /\ IF log_data # None /\ ~empty(log_data)
       THEN /\ stdout' = stdout \o << [msg |-> "--- Parsed Firewall Logs ---"],
                                      [frame |-> log_data] >>
            /\ pc' = "filter"
       ELSE /\ stdout' = Append(stdout, [msg |-> "No valid log data found."])
            /\ pc' = "done"
    /\ UNCHANGED <<source, lines, i, line, tokens, parsed_line, parsed_data,
                   log_data, blocked_traffic>>

(* The filter assigned back to log_data. *)
FilterBlocked_inplace ==
    /\ pc = "filter"
    /\ log_data' = filterByField(log_data, "action", BLOCKED)
    /\ blocked_traffic' = log_data'
    /\ stdout' = stdout \o << [msg |-> "--- Blocked Traffic ---"],
                              [frame |-> blocked_traffic'] >>
    /\ pc' = "done"
    /\ UNCHANGED <<source, lines, i, line, tokens, parsed_line, parsed_data>>

(* main selects and shows the rows whose action is "BLOCKED". *)
FilterBlocked ==
    /\ pc = "filter"
    /\ blocked_traffic' = filterByField(log_data, "action", BLOCKED)
    /\ stdout' = stdout \o << [msg |-> "--- Blocked Traffic ---"],
                              [frame |-> blocked_traffic'] >>
    /\ pc' = "done"
    /\ UNCHANGED <<source, lines, i, line, tokens, parsed_line, parsed_data, log_data>>

Next ==
    \/ OpenOk
    \/ OpenNotFound
    \/ OpenRaises
    \/ ForLine
    \/ Return
    \/ Show
    \/ FilterBlocked

Spec == Init /\ [][Next]_vars

(* The program is one thread that runs until it ends or an exception ends it. *)
FairSpec == Spec /\ WF_vars(Next)

----------------------------------------------------------------------------
(* Properties. *)

(* The records of the well-formed lines of ls, in the order of the lines. *)
RECURSIVE ParsedOf(_)
ParsedOf(ls) ==
    IF ls = <<>> THEN <<>>
    ELSE (IF parse_log_line(Head(ls)).ret # None
          THEN <<parse_log_line(Head(ls)).ret>>
          ELSE <<>>) \o ParsedOf(Tail(ls))

(* Number of well-formed lines of ls. *)
Matching(ls) == Cardinality({k \in 1..Len(ls) : parse_log_line(ls[k]).ret # None})

Returned == pc \in {"returned", "filter", "done"}

IsRecord(r) ==
    /\ DOMAIN r = Fields
    /\ \A f \in Fields :
         /\ r[f] # <<>>
         /\ \A k \in 1..Len(r[f]) : r[f][k] \notin Whitespace
    /\ \A f \in {"src_port", "dst_port"} :
         \A k \in 1..Len(r[f]) : r[f][k] \in Digits

(* C1, as stated: whenever the file was read, analyze_logs returns a       *)
(* collection of exactly M records, the parses of the M well-formed lines  *)
(* in the order of the lines.                                              *)
C1_AsStated ==
    (Returned /\ source = "ok") =>
        /\ log_data # None
        /\ log_data.rows = ParsedOf(lines)
        /\ Len(log_data.rows) = Matching(lines)

(* C1, amended: when at least one line is well-formed (M >= 1) the result  *)
(* is a collection of exactly M records, the i-th the parse of the i-th    *)
(* well-formed line; when no line is well-formed (M = 0) the result is     *)
(* None and no collection is produced.                                     *)
C1_Aggregate ==
    (Returned /\ source = "ok") =>
        IF Matching(lines) >= 1
        THEN /\ log_data # None
             /\ log_data.type = "DataFrame"
             /\ Len(log_data.rows) = Matching(lines)
             /\ log_data.rows = ParsedOf(lines)
             /\ log_data.index = [k \in 1..Matching(lines) |-> k - 1]
        ELSE log_data = None

C1_Witness ==
    /\ pc = "returned"
    /\ source = "ok"
    /\ Len(lines) = 3
    /\ log_data # None
    /\ Len(log_data.rows) = 2
    /\ log_data.rows[1] # log_data.rows[2]
    /\ parse_log_line(lines[2]).ret = None

(* C2, as stated: when the file opens and no line matches, analyze_logs    *)
(* returns an empty collection, which differs from the result for a        *)
(* source that is unavailable (None).                                      *)
C2_AsStated ==
    (Returned /\ source = "ok" /\ Matching(lines) = 0) =>
        /\ log_data # None
        /\ log_data.type = "DataFrame"
        /\ empty(log_data)

(* C2, amended: when the file opens and no line matches (the file is empty *)
(* or every line is malformed), analyze_logs ends without an exception and *)
(* returns None, the same value it returns when the file is not found.     *)
C2_NoMatchReturnsNone ==
    /\ (source = "ok" /\ Matching(lines) = 0) => pc # "raised"
    /\ (Returned /\ source = "ok" /\ Matching(lines) = 0) => log_data = None
    /\ (Returned /\ source = "FileNotFoundError") => log_data = None

C2_Witness ==
    /\ pc = "returned"
    /\ source = "ok"
    /\ Len(lines) = 2
    /\ i = 2
    /\ Matching(lines) = 0
    /\ log_data = None

(* C3: however the file fails to open, analyze_logs returns None and no    *)
(* exception reaches its caller.                                           *)
C3_AbsenceNotException ==
    source # "ok" =>
        /\ pc # "raised"
        /\ Returned => log_data = None

(* The tokens of t are the six, in order, separated by single spaces, the  *)
(* ports being digits.                                                     *)
WellFormed(t) ==
    /\ t.order = Canonical
    /\ t.sep = <<" ">>
    /\ \A f \in {"src_port", "dst_port"} :
         \A k \in 1..Len(t.val[f]) : t.val[f][k] \in Digits

(* C4: for a line holding the six tokens in order separated by single      *)
(* spaces, parse_log_line returns exactly the six token values, whatever   *)
(* text or whitespace stands before and after them.                        *)
C4_ParseVerbatim ==
    (pc = "parse_return" /\ WellFormed(tokens)) =>
        /\ parsed_line # None
        /\ DOMAIN parsed_line = Fields
        /\ \A f \in Fields : parsed_line[f] = tokens.val[f]

C4_Witness ==
    /\ pc = "parse_return"
    /\ WellFormed(tokens)
    /\ tokens.lead = <<"k", ":", " ">>
    /\ tokens.trail = <<" ", "e", " ", "\n">>
    /\ tokens.val.action = ALLOWED
    /\ parsed_line # None
    /\ parsed_line["action"] = ALLOWED

(* A token is missing, the tokens are in another order, or a port holds a  *)
(* character that is no digit.                                             *)
Malformed(t) ==
    \/ t.order # Canonical
    \/ \E f \in {"src_port", "dst_port"} :
         \E k \in 1..Len(t.val[f]) : t.val[f][k] \notin Digits

(* C5: for a line that misses a token, has the tokens in another order or  *)
(* has a non-digit in a port, parse_log_line returns None.                 *)
C5_ParseNoMatch ==
    (pc = "parse_return" /\ Malformed(tokens)) => parsed_line = None

C5_Witness ==
    /\ pc = "parse_return"
    /\ tokens.order = Canonical
    /\ tokens.sep = <<" ">>
    /\ tokens.val.src_port = <<"4", "x">>
    /\ tokens.val.dst_port = <<"4">>
    /\ parsed_line = None

(* C6: the rows of blocked_traffic are exactly the rows of log_data whose  *)
(* action is "BLOCKED", in the order of log_data, and no more of them than *)
(* log_data has.                                                           *)
C6_FilterSoundComplete ==
    (pc = "done" /\ blocked_traffic # None) =>
        LET B == blocked_traffic
            L == log_data
        IN  /\ Len(B.index) = Len(B.rows)
            /\ Len(B.rows) <= Len(L.rows)
            /\ \A j \in 1..Len(B.rows) : B.rows[j]["action"] = BLOCKED
            /\ \A j \in 1..Len(B.rows) :
                 \E k \in 1..Len(L.rows) :
                     L.index[k] = B.index[j] /\ L.rows[k] = B.rows[j]
            /\ \A k \in 1..Len(L.rows) :
                 L.rows[k]["action"] = BLOCKED =>
                     \E j \in 1..Len(B.rows) :
                         B.index[j] = L.index[k] /\ B.rows[j] = L.rows[k]
            /\ \A j1, j2 \in 1..Len(B.rows) : j1 < j2 => B.index[j1] < B.index[j2]

C6_Witness ==
    /\ pc = "done"
    /\ blocked_traffic # None
    /\ Len(log_data.rows) = 3
    /\ Len(blocked_traffic.rows) = 1
    /\ \E k \in 1..3 : log_data.rows[k]["action"] = <<"b", "l", "o", "c", "k", "e", "d">>

(* The values of column f of df. *)
ColumnValues(df, f) == {df.rows[k][f] : k \in 1..Len(df.rows)}

(* C7: filtering a filtered collection again by the same field and value   *)
(* returns it unchanged.                                                   *)
C7_FilterIdempotent ==
    (pc = "done" /\ blocked_traffic # None) =>
        /\ filterByField(blocked_traffic, "action", BLOCKED) = blocked_traffic
        /\ \A f \in Fields :
             \A v \in ColumnValues(log_data, f) \cup {BLOCKED} :
                 filterByField(filterByField(log_data, f, v), f, v)
                     = filterByField(log_data, f, v)

C7_Witness ==
    /\ pc = "done"
    /\ blocked_traffic # None
    /\ Len(blocked_traffic.rows) = 2
    /\ Len(log_data.rows) = 3
    /\ filterByField(blocked_traffic, "action", BLOCKED) = blocked_traffic

(* C8: once analyze_logs has returned, log_data and the list it was built  *)
(* from never change; the filter leaves log_data as it was.                *)
C8_FilterLeavesSource ==
    [][ Returned => (log_data' = log_data /\ parsed_data' = parsed_data) ]_vars

C8_Witness ==
    /\ pc = "done"
    /\ blocked_traffic # None
    /\ Len(blocked_traffic.rows) < Len(log_data.rows)
    /\ log_data = DataFrame(ParsedOf(lines))

(* C9: once the file is open, every pass of the loop takes the next line   *)
(* and stays in the loop, leaving the list unchanged for a line that does  *)
(* not match and appending its record for one that does; the loop is left  *)
(* only when every line was taken, and the run then ends.                  *)
C9_VisitsEveryLine ==
    /\ [][ (pc = "for" /\ i < Len(lines)) =>
              /\ pc' = "for"
              /\ i' = i + 1
              /\ line' = lines[i + 1]
              /\ Len(stdout') = Len(stdout) + 1
              /\ IF parse_log_line(lines[i + 1]).ret = None
                 THEN parsed_data' = parsed_data
                 ELSE parsed_data' = Append(parsed_data, parse_log_line(lines[i + 1]).ret) ]_vars
    /\ [][ (pc = "for" /\ pc' # "for") => (i = Len(lines) /\ pc' = "returned") ]_vars
    /\ [](source = "ok" => pc # "raised")
    /\ (pc = "for") ~> (pc = "done" /\ i = Len(lines))

C9_Witness ==
    /\ pc = "done"
    /\ source = "ok"
    /\ Len(lines) = 3
    /\ i = 3
    /\ Len(parsed_data) = 1
    /\ parse_log_line(lines[1]).ret = None
    /\ parse_log_line(lines[2]).ret # None

(* The records the program holds. *)
Held ==
    {parsed_data[k] : k \in 1..Len(parsed_data)}
    \cup (IF log_data # None THEN {log_data.rows[k] : k \in 1..Len(log_data.rows)} ELSE {})
    \cup (IF blocked_traffic # None
          THEN {blocked_traffic.rows[k] : k \in 1..Len(blocked_traffic.rows)}
          ELSE {})

(* C10: every record held has exactly the six fields, each a non-empty     *)
(* string without whitespace, the ports digits only; nothing printed is    *)
(* part of a record, and there are no more records than lines taken.       *)
C10_RecordsWellFormed ==
    /\ \A r \in Held : IsRecord(r)
    /\ \A r \in Held : \A f \in Fields :
         \A k \in 1..Len(stdout) :
             "text" \in DOMAIN stdout[k] => r[f] # stdout[k].text
    /\ Len(parsed_data) <= i

C10_Witness ==
    /\ pc = "done"
    /\ Len(lines) = 3
    /\ Len(parsed_data) = 2
    /\ blocked_traffic # None
    /\ Len(blocked_traffic.rows) = 1
    /\ \E k \in 1..3 : parse_log_line(lines[k]).ret = None /\ Len(lines[k]) > 1

====
